---- MODULE Spec2Model ----
(***************************************************************************)
(* Distributed photo organizer: the daemon's control plane                 *)
(* (src/src/daemon.py, src/src/peer_protocol.py, src/src/client.py).       *)
(*                                                                         *)
(* A daemon process is identified by its listening address (a member of    *)
(* Procs); its peer identifier is assigned by the join protocol.  Every    *)
(* daemon has one demultiplexer thread (Daemon.run / Daemon.read) and one  *)
(* worker thread per received message (Daemon.action).  A thread runs      *)
(* atomically from one blocking point (Lock.acquire) to the next; the two  *)
(* unlocked read-then-write sequences of the source (join: lines 95|98,    *)
(* config: lines 126|127) are split so that other threads may interleave.  *)
(* A connection handle at the receiving daemon is named by the process at  *)
(* the other end.  A file of a folder is named by the hash of its image.   *)
(***************************************************************************)
EXTENDS Integers, Sequences, FiniteSets, TLC

\* ---------------------------------------------------------------- bounds
NProcs == 4
NClients == 1
NHashes == 2
MaxCrashes == 1
MaxRequests == 2
MaxBadFrames == 1
MaxRelayed == 2
MaxBody == 2

Procs == 1..NProcs
Clients == (NProcs + 1)..(NProcs + NClients)
Hashes == 1..NHashes

\* Python's None, the empty address tuple(), an attribute not yet assigned.
None == 0

\* ------------------------------------------------------- small utilities
Max(S) == CHOOSE x \in S : \A y \in S : y <= x
Min(S) == CHOOSE x \in S : \A y \in S : x <= y

RECURSIVE Ascending(_)
Ascending(S) == IF S = {} THEN << >> ELSE << Min(S) >> \o Ascending(S \ {Min(S)})

Range(f) == {f[x] : x \in DOMAIN f}
pop(f, k) == [x \in DOMAIN f \ {k} |-> f[x]]
put(f, k, v) == [x \in DOMAIN f \cup {k} |-> IF x = k THEN v ELSE f[x]]
Empty == [x \in {} |-> None]

\* The orders in which a set of hashes may be iterated (a Python set of bytes).
RECURSIVE Perms(_)
Perms(S) == IF S = {} THEN {<< >>}
            ELSE UNION {{<<x>> \o q : q \in Perms(S \ {x})} : x \in S}
HashOrders == Perms(Hashes)
InOrder(S, ord) == SelectSeq(ord, LAMBDA h : h \in S)

\* ------------------------------------------------------- network catalog
NewEntry == [addr |-> None, hash |-> {}, size |-> 0]
getIds(ni) == DOMAIN ni
setAddr(ni, i, a) ==
    IF i \in DOMAIN ni THEN [ni EXCEPT ![i].addr = a]
    ELSE put(ni, i, [NewEntry EXCEPT !.addr = a])
addHash(ni, i, h) ==
    IF i \in DOMAIN ni THEN [ni EXCEPT ![i].hash = @ \cup {h}]
    ELSE put(ni, i, [NewEntry EXCEPT !.hash = {h}])
setSize(ni, i, n) ==
    IF i \in DOMAIN ni THEN [ni EXCEPT ![i].size = n]
    ELSE put(ni, i, [NewEntry EXCEPT !.size = n])
RECURSIVE addHashes(_, _, _)
addHashes(ni, i, hs) ==
    IF hs = {} THEN ni
    ELSE LET h == Min(hs) IN addHashes(addHash(ni, i, h), i, hs \ {h})
getHashes(ni, i) == ni[i].hash
getSize(ni, i) == ni[i].size
getAddr(ni, i) == ni[i].addr
RECURSIVE UnionOver(_, _)
UnionOver(ni, ids) ==
    IF ids = {} THEN {}
    ELSE LET i == Min(ids) IN getHashes(ni, i) \cup UnionOver(ni, ids \ {i})
\* getNetHashes as it would be if only the first entry were read.
getFirstHashes(ni) == IF getIds(ni) = {} THEN {} ELSE getHashes(ni, Min(getIds(ni)))
getNetHashes(ni) == UnionOver(ni, getIds(ni))
\* getIdByHash as it would be if the hashes were not compared.
getLastId(ni, h) == IF getIds(ni) = {} THEN None ELSE Max(getIds(ni))
\* The first id, in the iteration order of a set of small ints (ascending),
\* whose entry holds h; None when no entry does.
getIdByHash(ni, h) ==
    LET holders == {i \in getIds(ni) : h \in getHashes(ni, i)}
    IN IF holders = {} THEN None ELSE Min(holders)

\* os.path.getsize of one image file; getFolderSize sums it over the folder.
FileSize(h) == 1
RECURSIVE getFolderSize(_)
getFolderSize(files) ==
    IF files = {} THEN 0
    ELSE LET f == Min(files) IN FileSize(f) + getFolderSize(files \ {f})

\* ------------------------------------------------------------- messages
\* PeerProto.join .. PeerProto.list; the EOF sentinel of recv_msg; a frame
\* that does not decode; a frame cut short by the death of its sender: the
\* length prefix says n bytes, of which rest are still to be read.
JoinMsg(a) == [cmd |-> "join", addr |-> a]
ConfigMsg(f, n, ni) == [cmd |-> "config", from_id |-> f, new_id |-> n, net_info |-> ni]
UpdateMsg(f, add) == [cmd |-> "update", from_id |-> f, add |-> add]
RequestImageMsg(f, h) == [cmd |-> "request_image", from_id |-> f, hash |-> h]
ImageMsg(f, h, st) == [cmd |-> "image", from_id |-> f, hash |-> h, store |-> st]
RequestListMsg(f) == [cmd |-> "request_list", from_id |-> f]
ListMsg(hs) == [cmd |-> "list", hashes |-> hs]
EOFMsg == [cmd |-> "eof"]
BadMsg == [cmd |-> "bad"]
ShortMsg(got) == [cmd |-> "short", n |-> MaxBody, rest |-> got]

\* One pending send of a handler: to a peer id (through getSendConn) or on a
\* given connection; load says that the message is built from the local
\* image store (getImage, getFname) when the loop reaches it.
ToId(i, m, ld) == [kind |-> "id", v |-> i, m |-> m, load |-> ld]
ToConn(c, m, ld) == [kind |-> "conn", v |-> c, m |-> m, load |-> ld]

\* ------------------------------------------------------------ variables
VARIABLES
    daemon,    \* per process: the Daemon object, its threads, its folder
    chan,      \* chan[<<src, dst>>]: frames written by src, not yet read by dst
    conns,     \* the connections that are open, <<opener, acceptor>>
    inbox,     \* per client: the frames received on its connection
    creq,      \* per client: the requests it has sent
    cpeer,     \* per client: the daemon it is connected to, None before
    crashes,   \* number of daemon processes killed so far
    badframes  \* number of undecodable frames sent so far

vars == <<daemon, chan, conns, inbox, creq, cpeer, crashes, badframes>>

\* Thread(target=self.action, args=[conn, msg]); the demultiplexer running
\* crashHandler is kept as a thread of kind "eof".  n_ids notes, for a join,
\* the size of the catalog when the message was read.
NewThread(conn, msg, pc) ==
    [cmd |-> msg.cmd, msg |-> msg, conn |-> conn, pc |-> pc, todo |-> << >>,
     next |-> "end", new_id |-> None, crashed |-> None, hs |-> << >>,
     backup |-> None, dst |-> None, err |-> "none", n_ids |-> None]

Entry(cmd) ==
    CASE cmd = "join" -> "j1"
      [] cmd = "config" -> "c1"
      [] cmd = "update" -> "u"
      [] cmd = "request_image" -> "ri"
      [] cmd = "image" -> "im"
      [] cmd = "request_list" -> "rl"

\* No call of recv_msg is in progress; otherwise conn is the connection, n
\* the length read from the prefix and data the number of bytes __recvall
\* has collected.
NoRecv == [conn |-> None, n |-> 0, data |-> 0]

\* Daemon.__init__ before the branch on join_addr (lines 17-39).  closed holds
\* the connections closed here (fileno() == -1); errs logs the exceptions
\* raised in this daemon, disk0 the folder as found at start, elected the
\* crashed ids for which this daemon passed line 434 as designated peer.
NewDaemon(files) ==
    [state |-> "off", join_addr |-> None, id |-> None, net_info |-> Empty,
     image |-> {}, folder |-> files, send_conn |-> Empty, recv_conn |-> Empty,
     own_request |-> {}, client_request |-> Empty, send_mutex |-> FALSE,
     folder_mutex |-> FALSE, threads |-> << >>, closed |-> {}, errs |-> {},
     disk0 |-> files, elected |-> {}, recv |-> NoRecv]

\* parseFolder (lines 380-417) on a folder that holds one file per hash:
\* a file whose hash the catalog already lists is deleted, the others are
\* indexed; then the self entry gets the new hashes and the folder size.
parseFolder(s) ==
    LET net == getNetHashes(s.net_info)
        keep == s.folder \ net
    IN [s EXCEPT !.folder = keep,
                 !.image = @ \cup keep,
                 !.net_info = setSize(addHashes(s.net_info, s.id, keep), s.id,
                                      getFolderSize(keep))]

\* addImage (lines 318-324) up to the update of self._image.
saveImage(s, h) == [s EXCEPT !.folder = @ \cup {h}, !.image = @ \cup {h}]

isDaemon(s, c) == c \in Range(s.recv_conn)
\* getIdByRecvConn scans the ids of the catalog, not of _recv_conn.
getIdByRecvConn(s, c) ==
    LET ids == {i \in getIds(s.net_info) :
                   i \in DOMAIN s.recv_conn /\ s.recv_conn[i] = c}
    IN IF ids = {} THEN None ELSE Min(ids)

\* ------------------------------------------------------ handler phases
\* A phase maps the daemon object s and the thread t to [s, t].  A thread
\* that raises ends with pc "fail" and the exception in err.
Ok(s, t) == [s |-> s, t |-> t]
Fail(s, t, e) == [s |-> s, t |-> [t EXCEPT !.pc = "fail", !.err = e]]
Sends(s, t, todo, next) ==
    [s |-> s, t |-> [t EXCEPT !.pc = "send", !.todo = todo, !.next = next]]

\* "for id in self.getIds(): if id != ...: send(update_msg)"
Broadcast(ni, except, m) ==
    LET ids == Ascending(getIds(ni) \ except)
    IN [k \in 1..Len(ids) |-> ToId(ids[k], m, FALSE)]

\* join, line 95
JoinNewId(s, t) ==
    IF getIds(s.net_info) = {} THEN Fail(s, t, "ValueError")
    ELSE Ok(s, [t EXCEPT !.new_id = Max(getIds(s.net_info)) + 1, !.pc = "j2"])

\* join, lines 98-104
JoinConfigure(s, t) ==
    LET ni == setAddr(s.net_info, t.new_id, t.msg.addr)
        s1 == [s EXCEPT !.net_info = ni, !.recv_conn = put(@, t.new_id, t.conn)]
    IN IF s.id = None THEN Fail(s1, t, "AttributeError")
       ELSE Sends(s1, t, << ToId(t.new_id, ConfigMsg(s.id, t.new_id, ni), FALSE) >>, "j3")

\* join, lines 108-114
JoinUpdate(s, t) ==
    IF t.new_id \notin getIds(s.net_info) THEN Fail(s, t, "KeyError")
    ELSE LET add == put(Empty, t.new_id, [addr |-> getAddr(s.net_info, t.new_id)])
         IN Sends(s, t, Broadcast(s.net_info, {t.new_id, s.id}, UpdateMsg(s.id, add)), "j4")

\* join, lines 117-122
JoinReplicate(s, t, ord) ==
    IF Cardinality(getIds(s.net_info)) # 2 THEN Ok(s, [t EXCEPT !.pc = "done"])
    ELSE IF s.id \notin getIds(s.net_info) THEN Fail(s, t, "KeyError")
    ELSE LET hs == InOrder(getHashes(s.net_info, s.id), ord)
         IN Sends(s, t, [k \in 1..Len(hs) |->
                            ToId(t.new_id, ImageMsg(s.id, hs[k], TRUE), TRUE)], "end")

\* config, line 126
ConfigId(s, t) == Ok([s EXCEPT !.id = t.msg.new_id], [t EXCEPT !.pc = "c2"])

\* config, lines 127-128
ConfigNetInfo(s, t) ==
    IF s.join_addr = None THEN Fail([s EXCEPT !.net_info = t.msg.net_info], t, "AttributeError")
    ELSE Ok([s EXCEPT !.net_info = t.msg.net_info,
                      !.send_conn = put(@, t.msg.from_id, s.join_addr)],
            [t EXCEPT !.pc = "c3"])

\* config, lines 131-141, entered with the folder mutex free
ConfigParse(s, t) ==
    LET s1 == parseFolder([s EXCEPT !.folder_mutex = TRUE])
        add == put(Empty, s.id, [hash |-> getHashes(s1.net_info, s.id),
                                 size |-> getSize(s1.net_info, s.id)])
    IN Sends(s1, t, Broadcast(s1.net_info, {s.id}, UpdateMsg(s.id, add)), "c4")

\* The index as it would be if the search started from 0 for every hash.
FirstIndex(ids, i, self) == IF ids[1] # self THEN 0 ELSE 1
\* "i = (i + 1) % len(ids)" until ids[i] is not self (i counts from 0)
RECURSIVE NextIndex(_, _, _)
NextIndex(ids, i, self) ==
    LET j == (i + 1) % Len(ids)
    IN IF ids[j + 1] # self THEN j ELSE NextIndex(ids, j, self)

RECURSIVE Distribute(_, _, _, _, _)
Distribute(hs, ids, i, self, from) ==
    IF hs = << >> THEN << >>
    ELSE LET j == NextIndex(ids, i, self)
         IN << ToId(ids[j + 1], ImageMsg(from, Head(hs), TRUE), TRUE) >>
            \o Distribute(Tail(hs), ids, j, self, from)

\* config, lines 144-155
ConfigReplicate(s, t, ord) ==
    LET hs == InOrder(getHashes(s.net_info, s.id), ord)
        ids == Ascending(getIds(s.net_info))
    IN IF s.id \notin getIds(s.net_info) THEN Fail(s, t, "KeyError")
       ELSE IF hs # << >> /\ getIds(s.net_info) \subseteq {s.id}
            THEN Ok(s, [t EXCEPT !.pc = "hang"])
       ELSE Sends(s, t, Distribute(hs, ids, 0, s.id, s.id), "c5")

\* config, line 156
ConfigRelease(s, t) == Ok([s EXCEPT !.folder_mutex = FALSE], [t EXCEPT !.pc = "done"])

\* update, lines 160-167 for one id of msg.add
ApplyInfo(ni, i, info) ==
    LET n1 == IF "addr" \in DOMAIN info THEN setAddr(ni, i, info.addr) ELSE ni
        n2 == IF "hash" \in DOMAIN info THEN addHashes(n1, i, info.hash) ELSE n1
    IN IF "size" \in DOMAIN info THEN setSize(n2, i, info.size) ELSE n2

RECURSIVE ApplyAdd(_, _, _)
ApplyAdd(ni, add, ids) ==
    IF ids = {} THEN ni
    ELSE LET i == Min(ids) IN ApplyAdd(ApplyInfo(ni, i, add[i]), add, ids \ {i})

\* update, lines 160-184 (msg.rem is empty in every update the daemon builds)
Update(s, t) ==
    LET s1 == [s EXCEPT !.net_info = ApplyAdd(@, t.msg.add, DOMAIN t.msg.add)]
    IN IF t.msg.from_id \in DOMAIN s1.send_conn THEN Ok(s1, [t EXCEPT !.pc = "done"])
       ELSE IF s1.id = None THEN Fail(s1, t, "AttributeError")
       ELSE Sends(s1, t, << ToId(t.msg.from_id, UpdateMsg(s1.id, Empty), FALSE) >>, "end")

\* request_image, lines 188-209
RequestImage(s, t) ==
    LET h == t.msg.hash
    IN IF s.id = None THEN Fail(s, t, "AttributeError")
       ELSE IF t.msg.from_id # 0
            THEN Sends(s, t, << ToId(t.msg.from_id, ImageMsg(s.id, h, FALSE), TRUE) >>, "end")
       ELSE IF s.id \notin getIds(s.net_info) THEN Fail(s, t, "KeyError")
       ELSE IF h \notin getHashes(s.net_info, s.id)
            THEN Sends([s EXCEPT !.client_request = put(@, t.conn, h)], t,
                       << ToId(getIdByHash(s.net_info, h), RequestImageMsg(s.id, h), FALSE) >>,
                       "end")
       ELSE Sends(s, t, << ToConn(t.conn, ImageMsg(s.id, h, FALSE), TRUE) >>, "end")

\* The image handler as it would be without lines 213-218.
ImageNoRelay(s, t) == Sends(s, t, << >>, "im2")
\* image, lines 213-218
ImageRelay(s, t) ==
    LET cs == Ascending({c \in DOMAIN s.client_request : s.client_request[c] = t.msg.hash})
    IN IF cs # << >> /\ s.id = None THEN Fail(s, t, "AttributeError")
       ELSE Sends(s, t, [k \in 1..Len(cs) |->
                            ToConn(cs[k], ImageMsg(s.id, t.msg.hash, FALSE), FALSE)], "im2")

\* image, lines 221-222
ImageWanted(s, t) ==
    IF t.msg.hash \in s.own_request \/ t.msg.store
    THEN Ok([s EXCEPT !.own_request = @ \ {t.msg.hash}], [t EXCEPT !.pc = "im3"])
    ELSE Ok(s, [t EXCEPT !.pc = "done"])

\* image, lines 224-236, entered with the folder mutex free
ImageAdmit(s, t) ==
    LET h == t.msg.hash
        s1 == saveImage([s EXCEPT !.folder_mutex = TRUE], h)
        ni == addHash(setSize(s1.net_info, s.id, getFolderSize(s1.folder)), s.id, h)
        s2 == [s1 EXCEPT !.net_info = ni, !.folder_mutex = FALSE]
        add == put(Empty, s.id, [hash |-> {h}, size |-> getSize(ni, s.id)])
    IN IF s.id = None THEN Fail(s1, t, "AttributeError")
       ELSE Sends(s2, t, Broadcast(ni, {s.id}, UpdateMsg(s.id, add)), "end")

\* request_list, lines 239-242
RequestList(s, t) ==
    Sends(s, t, << ToConn(t.conn, ListMsg(getNetHashes(s.net_info)), FALSE) >>, "end")

\* --------------------------------------------------------- crash handler
\* sorted(zip(sizes, ids)): by size, then by id.
Before(ni, a, b) ==
    getSize(ni, a) < getSize(ni, b) \/ (getSize(ni, a) = getSize(ni, b) /\ a < b)
\* The order of crashHandler as it would be if the sizes were not looked at.
SortById(ni, ids) == Ascending(ids)
RECURSIVE SortBySize(_, _)
SortBySize(ni, ids) ==
    IF ids = {} THEN << >>
    ELSE LET m == CHOOSE a \in ids : \A b \in ids \ {a} : Before(ni, a, b)
         IN << m >> \o SortBySize(ni, ids \ {m})

\* read, line 64, and crashHandler, lines 422-435
CrashElect(s, t, ord) ==
    LET i == getIdByRecvConn(s, t.conn)
        ni == pop(s.net_info, i)
        ids_sorted == SortBySize(ni, getIds(ni))
        s1 == [s EXCEPT !.net_info = ni]
        t1 == [t EXCEPT !.crashed = i]
    IN IF i = None THEN Fail(s, t, "KeyError")
       ELSE IF Len(ids_sorted) = 1 THEN Ok(s1, [t1 EXCEPT !.pc = "cr_end"])
       ELSE IF Len(ids_sorted) = 0 THEN Fail(s1, t1, "ValueError")
       ELSE IF s.id = None THEN Fail(s1, t1, "AttributeError")
       ELSE IF s.id # ids_sorted[1] THEN Ok(s1, [t1 EXCEPT !.pc = "cr_end"])
       ELSE Ok([s1 EXCEPT !.elected = @ \cup {i}],
               [t1 EXCEPT !.pc = "cr", !.backup = ids_sorted[2],
                          !.hs = InOrder(getHashes(s.net_info, i), ord)])

\* crashHandler, lines 437-456, for the next hash of hashes_crashed
CrashRecover(s, t) ==
    IF t.hs = << >> THEN Ok(s, [t EXCEPT !.pc = "cr_end"])
    ELSE LET h == Head(t.hs)
             id_hash == getIdByHash(s.net_info, h)
             t1 == [t EXCEPT !.hs = Tail(@)]
         IN IF id_hash # None /\ id_hash # s.id
            THEN Sends([s EXCEPT !.own_request = @ \cup {h}], t1,
                       << ToId(id_hash, RequestImageMsg(s.id, h), FALSE) >>, "cr")
            ELSE IF id_hash # None
            THEN Sends(s, t1, << ToId(t.backup, ImageMsg(s.id, h, TRUE), TRUE) >>, "cr")
            ELSE Ok(s, [t1 EXCEPT !.pc = "cr"])

\* read as it would be if it closed the connection without lines 67-68.
CrashKeep(s, t) == Ok([s EXCEPT !.closed = @ \cup {t.conn}], [t EXCEPT !.pc = "done"])
\* read, lines 67-70
CrashForget(s, t) ==
    Ok([s EXCEPT !.recv_conn = pop(@, t.crashed), !.send_conn = pop(@, t.crashed),
                 !.closed = @ \cup {t.conn}],
       [t EXCEPT !.pc = "done"])

\* ------------------------------------------------------- running a thread
Phase(s, t, ord) ==
    CASE t.pc = "j1" -> JoinNewId(s, t)
      [] t.pc = "j2" -> JoinConfigure(s, t)
      [] t.pc = "j3" -> JoinUpdate(s, t)
      [] t.pc = "j4" -> JoinReplicate(s, t, ord)
      [] t.pc = "c1" -> ConfigId(s, t)
      [] t.pc = "c2" -> ConfigNetInfo(s, t)
      [] t.pc = "c3" -> ConfigParse(s, t)
      [] t.pc = "c4" -> ConfigReplicate(s, t, ord)
      [] t.pc = "c5" -> ConfigRelease(s, t)
      [] t.pc = "u" -> Update(s, t)
      [] t.pc = "ri" -> RequestImage(s, t)
      [] t.pc = "im" -> ImageRelay(s, t)
      [] t.pc = "im2" -> ImageWanted(s, t)
      [] t.pc = "im3" -> ImageAdmit(s, t)
      [] t.pc = "rl" -> RequestList(s, t)
      [] t.pc = "cr0" -> CrashElect(s, t, ord)
      [] t.pc = "cr" -> CrashRecover(s, t)
      [] t.pc = "cr_end" -> CrashForget(s, t)
      [] t.pc = "end" -> Ok(s, [t EXCEPT !.pc = "done"])

\* Where a thread stops for others to run: before acquiring a mutex, at the
\* two unlocked read-then-write points, and when it has ended.
Rests(t) ==
    \/ t.pc \in {"j2", "c2", "c3", "im3", "done", "fail", "hang"}
    \/ t.pc = "send" /\ t.todo # << >>

RECURSIVE Run(_, _, _)
Run(s, t, ord) ==
    LET r == Phase(s, t, ord)
    IN IF Rests(r.t) THEN r
       ELSE Run(r.s, IF r.t.pc = "send" THEN [r.t EXCEPT !.pc = r.t.next] ELSE r.t, ord)

RemoveAt(q, k) == [j \in 1..(Len(q) - 1) |-> IF j < k THEN q[j] ELSE q[j + 1]]

\* The daemon object after thread k became t: an ended thread is dropped; an
\* exception is logged, and ends the demultiplexer when raised under run().
Settle(s, k, t) ==
    IF t.pc = "done" THEN [s EXCEPT !.threads = RemoveAt(@, k)]
    ELSE IF t.pc = "fail"
    THEN [s EXCEPT !.threads = RemoveAt(@, k), !.errs = @ \cup {t.err},
                   !.state = IF t.cmd = "eof" THEN "halted" ELSE @]
    ELSE [s EXCEPT !.threads[k] = t]

Alive(p) == daemon[p].state \in {"up", "halted"}
OrdersFor(t) == IF t.cmd \in {"join", "config", "eof"} THEN HashOrders ELSE {Ascending(Hashes)}

\* ---------------------------------------------------------------- state
Ends == Procs \cup Clients
Folders == [Procs -> SUBSET Hashes]

\* Daemon.__init__ of the bootstrap peer (lines 41-44).
Bootstrap(files) ==
    parseFolder([NewDaemon(files) EXCEPT !.state = "up", !.id = 1,
                                         !.net_info = setAddr(Empty, 1, 1)])

InitWith(layouts) ==
    /\ \E f \in layouts :
          daemon = [p \in Procs |-> IF p = 1 THEN Bootstrap(f[p]) ELSE NewDaemon(f[p])]
    /\ chan = [e \in Ends \X Procs |-> << >>]
    /\ conns = {}
    /\ inbox = [k \in Clients |-> << >>]
    /\ creq = [k \in Clients |-> << >>]
    /\ cpeer = [k \in Clients |-> None]
    /\ crashes = 0
    /\ badframes = 0

\* ------------------------------------------------- the demultiplexer
\* Daemon.run / Daemon.read: one frame of one readable connection.  The
\* demultiplexer is busy while it runs the crash handler or is in recv_msg.
Demux(p) ==
    /\ daemon[p].state = "up"
    /\ daemon[p].recv = NoRecv
    /\ \A k \in 1..Len(daemon[p].threads) : daemon[p].threads[k].cmd # "eof"
Readable(p, c) == Demux(p) /\ c \notin daemon[p].closed /\ chan[<<c, p>>] # << >>

\* read, lines 60 and 80-88: a decoded message
ReadMessage(p) ==
    \E c \in Ends :
        /\ Readable(p, c)
        /\ LET msg == Head(chan[<<c, p>>])
               s == daemon[p]
               s1 == IF msg.cmd # "join" /\ msg.from_id # 0
                     THEN [s EXCEPT !.recv_conn = put(@, msg.from_id, c)] ELSE s
           IN /\ msg.cmd \notin {"eof", "bad", "short"}
              /\ daemon' = [daemon EXCEPT ![p] =
                               [s1 EXCEPT !.threads = Append(@,
                                   [NewThread(c, msg, Entry(msg.cmd)) EXCEPT !.n_ids =
                                       IF msg.cmd = "join" THEN Cardinality(getIds(s.net_info))
                                       ELSE None])]]
              /\ chan' = [chan EXCEPT ![<<c, p>>] = Tail(@)]
        /\ UNCHANGED <<conns, inbox, creq, cpeer, crashes, badframes>>

\* read, lines 60-78: recv_msg returned None
ReadEOF(p) ==
    \E c \in Ends :
        /\ Readable(p, c)
        /\ Head(chan[<<c, p>>]).cmd = "eof"
        /\ LET s == daemon[p]
               k == Len(s.threads) + 1
           IN IF isDaemon(s, c)
              THEN \E ord \in HashOrders :
                     LET s1 == [s EXCEPT !.threads = Append(@, NewThread(c, EOFMsg, "cr0"))]
                         r == Run(s1, s1.threads[k], ord)
                     IN daemon' = [daemon EXCEPT ![p] = Settle(r.s, k, r.t)]
              ELSE daemon' = [daemon EXCEPT ![p] =
                                 [s EXCEPT !.client_request = pop(@, c),
                                           !.closed = @ \cup {c}]]
        /\ chan' = [chan EXCEPT ![<<c, p>>] = Tail(@)]
        /\ UNCHANGED <<conns, inbox, creq, cpeer, crashes, badframes>>

\* read, line 60: recv_msg raises PeerProtoBadFormat (lines 243-261); run()
\* (lines 461-465) catches nothing, so the demultiplexer ends.
ReadBad(p) ==
    \E c \in Ends :
        /\ Readable(p, c)
        /\ Head(chan[<<c, p>>]).cmd = "bad"
        /\ daemon' = [daemon EXCEPT ![p].state = "halted", ![p].errs = @ \cup {"BadFormat"}]
        /\ chan' = [chan EXCEPT ![<<c, p>>] = Tail(@)]
        /\ UNCHANGED <<conns, inbox, creq, cpeer, crashes, badframes>>

\* read, line 60, on a frame cut short: recv_msg reads the length prefix,
\* which is not 0, and calls __recvall (peer_protocol.py, lines 236-240).
ReadShort(p) ==
    \E c \in Ends :
        /\ Readable(p, c)
        /\ Head(chan[<<c, p>>]).cmd = "short"
        /\ daemon' = [daemon EXCEPT ![p].recv =
                         [conn |-> c, n |-> Head(chan[<<c, p>>]).n, data |-> 0]]
        /\ UNCHANGED <<chan, conns, inbox, creq, cpeer, crashes, badframes>>

\* One round of the loop of __recvall (lines 267-269): recv returns some of
\* the bytes that are there, or b"" once the closed connection is drained;
\* data grows by what was returned.  A round that got nothing leaves the
\* loop where it was, for ever: the demultiplexer is lost (RecvHang).
RecvAll(p) ==
    LET r == daemon[p].recv
        f == Head(chan[<<r.conn, p>>])
        want == r.n - r.data
    IN /\ daemon[p].state = "up"
       /\ r # NoRecv
       /\ r.data < r.n
       /\ IF f.rest > 0
          THEN \E k \in 1..(IF f.rest < want THEN f.rest ELSE want) :
                 /\ daemon' = [daemon EXCEPT ![p].recv.data = @ + k]
                 /\ chan' = [chan EXCEPT ![<<r.conn, p>>][1].rest = @ - k]
          ELSE /\ daemon' = [daemon EXCEPT ![p].state = "halted",
                                           ![p].errs = @ \cup {"RecvHang"}]
               /\ chan' = chan
       /\ UNCHANGED <<conns, inbox, creq, cpeer, crashes, badframes>>

\* ------------------------------------------------------ worker threads
\* Thread k of p runs from pc to its next resting point.
RunThread(p, k) ==
    LET s == daemon[p]
        t == s.threads[k]
    IN /\ Alive(p)
       /\ t.pc \in {"c3", "im3"} => ~s.folder_mutex
       /\ \E ord \in OrdersFor(t) :
             LET r == Run(s, t, ord)
             IN daemon' = [daemon EXCEPT ![p] = Settle(r.s, k, r.t)]
       /\ UNCHANGED <<chan, conns, inbox, creq, cpeer, crashes, badframes>>

Threads(p, cmd, pcs) ==
    {k \in 1..Len(daemon[p].threads) :
        daemon[p].threads[k].cmd = cmd /\ daemon[p].threads[k].pc \in pcs}

ActionJoin(p) == \E k \in Threads(p, "join", {"j1", "j2"}) : RunThread(p, k)
ActionConfig(p) == \E k \in Threads(p, "config", {"c1", "c2", "c3"}) : RunThread(p, k)
ActionUpdate(p) == \E k \in Threads(p, "update", {"u"}) : RunThread(p, k)
ActionRequestImage(p) == \E k \in Threads(p, "request_image", {"ri"}) : RunThread(p, k)
ActionImage(p) == \E k \in Threads(p, "image", {"im", "im3"}) : RunThread(p, k)
ActionRequestList(p) == \E k \in Threads(p, "request_list", {"rl"}) : RunThread(p, k)

\* ---------------------------------------------------------------- sends
\* pickle at send time: the config message holds a shallow copy of
\* _net_info, so the entries still in the catalog are encoded as they are now.
Pickle(s, m) ==
    IF m.cmd = "config"
    THEN [m EXCEPT !.net_info = [i \in DOMAIN m.net_info |->
                                    IF i \in getIds(s.net_info) THEN s.net_info[i]
                                    ELSE m.net_info[i]]]
    ELSE m

\* getImage / getFname of the message being built (lines 332-338) raise
\* when the hash is not indexed or its file is gone.
LoadFails(s, e) == e.load /\ (e.m.hash \notin s.image \/ e.m.hash \notin s.folder)

\* getSendConn (lines 247-253): the process the connection for id i leads
\* to, None when getAddr or connect raises.
Listening(a) == a \in Procs /\ daemon[a].state \in {"up", "halted"}
getSendConn(s, i) ==
    IF i \in DOMAIN s.send_conn THEN s.send_conn[i]
    ELSE IF i \notin getIds(s.net_info) THEN None
    ELSE IF Listening(getAddr(s.net_info, i)) THEN getAddr(s.net_info, i)
    ELSE None

\* A send that does not wait for the send mutex.
MutexSkipped(s) == s.send_mutex \in BOOLEAN
\* The mutex discipline of every send: "self._send_mutex.acquire()".
MutexFree(s) == ~s.send_mutex

\* A handler reaches its next send: builds the message, acquires the send
\* mutex, resolves the connection and enters send_msg (lines 223-229).
SendBegin(p) ==
    \E k \in 1..Len(daemon[p].threads) :
        LET s == daemon[p]
            t == s.threads[k]
            e == Head(t.todo)
            dst == IF e.kind = "id" THEN getSendConn(s, e.v)
                   ELSE IF e.v \in s.closed THEN None ELSE e.v
            held == [s EXCEPT !.send_mutex = TRUE]
        IN /\ Alive(p)
           /\ t.pc = "send"
           /\ IF LoadFails(s, e)
              THEN /\ daemon' = [daemon EXCEPT ![p] =
                                    Settle(s, k, [t EXCEPT !.pc = "fail", !.err = "LoadError"])]
                   /\ UNCHANGED conns
              ELSE /\ MutexFree(s)
                   /\ IF e.kind = "id" /\ dst = None
                      THEN /\ daemon' = [daemon EXCEPT ![p] =
                                 Settle(held, k, [t EXCEPT !.pc = "fail", !.err = "ConnectError"])]
                           /\ UNCHANGED conns
                      ELSE /\ daemon' = [daemon EXCEPT ![p] =
                                 [held EXCEPT
                                    !.send_conn = IF e.kind = "id" THEN put(@, e.v, dst) ELSE @,
                                    !.threads[k] = [t EXCEPT !.pc = "sending", !.dst = dst,
                                                             !.todo[1].m = Pickle(s, e.m)]]]
                           /\ conns' = IF e.kind = "id" THEN conns \cup {<<p, dst>>} ELSE conns
           /\ UNCHANGED <<chan, inbox, creq, cpeer, crashes, badframes>>

Gone(p, dst) ==
    IF dst \in Procs THEN ~Alive(dst)
    ELSE cpeer[dst] # p \/ (creq[dst] # << >> /\ creq[dst][Len(creq[dst])].cmd = "eof")

\* send_msg returns (the frame is written, or the connection was closed
\* here); the thread releases the send mutex and runs to its next resting
\* point.  On a connection whose other end is gone the frame is lost or
\* sendall raises, with the mutex still held.
SendEnd(p) ==
    \E k \in 1..Len(daemon[p].threads) :
        LET s == daemon[p]
            t == s.threads[k]
            e == Head(t.todo)
            t1 == [t EXCEPT !.todo = Tail(@), !.pc = "send", !.dst = None]
            s1 == [s EXCEPT !.send_mutex = FALSE]
            \* sendall of two threads on one socket at once: the bytes mix
            mixed == \E j \in 1..Len(s.threads) :
                        j # k /\ s.threads[j].pc = "sending" /\ s.threads[j].dst = t.dst
            frame == IF mixed THEN BadMsg ELSE e.m
        IN /\ Alive(p)
           /\ t.pc = "sending"
           /\ \E ord \in OrdersFor(t) : \E raises \in BOOLEAN :
                LET r == IF Rests(t1) THEN Ok(s1, t1)
                         ELSE Run(s1, [t1 EXCEPT !.pc = t1.next], ord)
                IN /\ raises => (t.dst # None /\ Gone(p, t.dst))
                   /\ daemon' = [daemon EXCEPT ![p] =
                         IF raises THEN Settle(s, k, [t EXCEPT !.pc = "fail", !.err = "SendError"])
                         ELSE Settle(r.s, k, r.t)]
                   /\ IF t.dst # None /\ ~Gone(p, t.dst) /\ t.dst \in Procs
                      THEN chan' = [chan EXCEPT ![<<p, t.dst>>] = Append(@, frame)]
                      ELSE chan' = chan
                   /\ IF t.dst # None /\ ~Gone(p, t.dst) /\ t.dst \in Clients
                      THEN inbox' = [inbox EXCEPT ![t.dst] = Append(@, frame)]
                      ELSE inbox' = inbox
           /\ UNCHANGED <<conns, creq, cpeer, crashes, badframes>>

\* ---------------------------------------------------------- environment
\* Daemon.__init__ with a join address (lines 45-50): connect, send join.
StartDaemon(q, i) ==
    /\ daemon[q].state = "off"
    /\ Listening(i)
    /\ daemon' = [daemon EXCEPT ![q].state = "up", ![q].join_addr = i]
    /\ conns' = conns \cup {<<q, i>>}
    /\ chan' = [chan EXCEPT ![<<q, i>>] = Append(@, JoinMsg(q))]
    /\ UNCHANGED <<inbox, creq, cpeer, crashes, badframes>>

\* The process of daemon p is killed: its threads end, every connection it
\* opened reports EOF to the other end after the frames already written; a
\* frame p was in the middle of writing may arrive cut short.
Crash(p) ==
    /\ Alive(p)
    /\ crashes < MaxCrashes
    /\ \E partial \in BOOLEAN : \E got \in 0..(MaxBody - 1) :
         LET ts == daemon[p].threads
             cut == {ts[k].dst : k \in {j \in 1..Len(ts) : ts[j].pc = "sending"}}
         IN /\ partial => cut \cap Procs # {}
            /\ ~partial => got = 0
            /\ chan' = [e \in Ends \X Procs |->
                  IF e[2] = p THEN << >>
                  ELSE IF e[1] = p /\ e \in conns
                  THEN chan[e] \o (IF partial /\ e[2] \in cut THEN << ShortMsg(got) >> ELSE << >>)
                               \o << EOFMsg >>
                  ELSE chan[e]]
    /\ daemon' = [daemon EXCEPT ![p].state = "crashed", ![p].threads = << >>,
                                ![p].recv = NoRecv]
    /\ crashes' = crashes + 1
    /\ UNCHANGED <<conns, inbox, creq, cpeer, badframes>>

\* client.py: the client is blocked in recv_msg after each request.
ClientWaits(k, p) ==
    /\ Listening(p)
    /\ cpeer[k] \in {None, p}
    /\ Len(inbox[k]) >= Len(creq[k])
    /\ creq[k] # << >> => creq[k][Len(creq[k])].cmd # "eof"
ClientReady(k, p) == ClientWaits(k, p) /\ Len(creq[k]) < MaxRequests

ClientSend(k, p, m) ==
    /\ cpeer' = [cpeer EXCEPT ![k] = p]
    /\ conns' = conns \cup {<<k, p>>}
    /\ creq' = [creq EXCEPT ![k] = Append(@, m)]
    /\ chan' = [chan EXCEPT ![<<k, p>>] = Append(@, m)]
    /\ UNCHANGED <<daemon, inbox, crashes>>

\* Client.request_list (lines 17-23)
ClientRequestList(k, p) ==
    /\ ClientReady(k, p)
    /\ ClientSend(k, p, RequestListMsg(0))
    /\ UNCHANGED badframes

\* Client.request_image (lines 25-31) of a hash of the menu (lines 46-59)
ClientRequestImage(k, p) ==
    /\ ClientReady(k, p)
    /\ \E j \in 1..Len(inbox[k]) :
          /\ inbox[k][j].cmd = "list"
          /\ \E h \in inbox[k][j].hashes : ClientSend(k, p, RequestImageMsg(0, h))
    /\ UNCHANGED badframes

\* The client closes its connection.
ClientDisconnect(k) ==
    /\ cpeer[k] # None
    /\ creq[k][Len(creq[k])].cmd # "eof"
    /\ creq' = [creq EXCEPT ![k] = Append(@, EOFMsg)]
    /\ chan' = [chan EXCEPT ![<<k, cpeer[k]>>] = Append(@, EOFMsg)]
    /\ UNCHANGED <<daemon, conns, inbox, cpeer, crashes, badframes>>

\* Some party connects and writes a frame that does not decode.
BadFrame(k, p) ==
    /\ ClientReady(k, p)
    /\ badframes < MaxBadFrames
    /\ badframes' = badframes + 1
    /\ ClientSend(k, p, BadMsg)

\* ------------------------------------------------------- specifications
\* A thread that waits for a mutex that is held, or spins.
Blocked(s, t) ==
    \/ t.pc = "hang"
    \/ t.pc = "send" /\ ~LoadFails(s, Head(t.todo)) /\ s.send_mutex
    \/ t.pc \in {"c3", "im3"} /\ s.folder_mutex

\* No daemon has anything left to do: every frame is read and every thread
\* has ended or waits for a mutex that no running thread holds.
Settled ==
    \A p \in Procs :
        Alive(p) => /\ \A k \in 1..Len(daemon[p].threads) :
                          Blocked(daemon[p], daemon[p].threads[k])
                    /\ \A c \in Ends : ~Readable(p, c)
                    /\ daemon[p].state = "up" => daemon[p].recv = NoRecv

\* The steps of the daemons in a network of peers without clients.
PeerStep(p) ==
    \/ ReadMessage(p)
    \/ ActionJoin(p)
    \/ ActionConfig(p)
    \/ ActionUpdate(p)
    \/ ActionImage(p)
    \/ SendBegin(p)
    \/ SendEnd(p)

\* launch_network.py: n_peers daemons (line 32) are started one after the
\* other (lines 12-21), each joining the bootstrap peer after the network
\* has settled (time.sleep(10)).
n_peers == 3
Launch ==
    /\ Settled
    /\ \E q \in 2..n_peers :
          /\ \A r \in Procs : r < q => daemon[r].state # "off"
          /\ StartDaemon(q, 1)
\* One daemon is killed while the network is at rest.
Kill == Settled /\ \E p \in Procs : Crash(p)

\* Spec: daemons launched in sequence, then at most MaxCrashes killed.
SeqFolders == {f \in Folders : f[2] = {} /\ \A p \in Procs : p > n_peers => f[p] = {}}
Init == InitWith(SeqFolders)
Next ==
    \/ \E p \in Procs :
        \/ PeerStep(p)
        \/ ReadEOF(p)
        \/ ActionRequestImage(p)
    \/ Launch
    \/ Kill
Spec == Init /\ [][Next]_vars

\* SpecJoin: one daemon joins the bootstrap peer.
JoinFolders == {f \in Folders : \A p \in Procs : p > 2 => f[p] = {}}
InitJoin == InitWith(JoinFolders)
NextJoin ==
    \/ \E p \in Procs : PeerStep(p)
    \/ StartDaemon(2, 1)
SpecJoin == InitJoin /\ [][NextJoin]_vars

\* SpecRace: daemons with empty folders, up to the moment every daemon has
\* its identifier.  The second daemon joins the bootstrap peer; once that
\* join has settled the third joins the bootstrap peer, and the fourth joins
\* the second daemon at any time after that.
EmptyFolders == {f \in Folders : \A p \in Procs : f[p] = {}}
InitRace == InitWith(EmptyFolders)
JoinLater ==
    \/ daemon[2].state = "up" /\ Settled /\ StartDaemon(3, 1)
    \/ daemon[3].state = "up" /\ StartDaemon(4, 2)
Joining == \E q \in Procs : daemon[q].id = None
JoinStep(p) ==
    /\ Joining
    /\ \/ ReadMessage(p)
       \/ ActionJoin(p)
       \/ ActionConfig(p)
       \/ ActionUpdate(p)
       \/ SendBegin(p)
       \/ SendEnd(p)
NextRace ==
    \/ \E p \in Procs : JoinStep(p)
    \/ StartDaemon(2, 1)
    \/ JoinLater
SpecRace == InitRace /\ [][NextRace]_vars

\* SpecClient: one daemon joins the bootstrap peer while clients are served.
NextClient ==
    \/ \E p \in Procs :
        \/ PeerStep(p)
        \/ ReadEOF(p)
        \/ ReadBad(p)
        \/ ActionRequestImage(p)
        \/ ActionRequestList(p)
    \/ StartDaemon(2, 1)
    \/ \E k \in Clients, p \in Procs :
        \/ ClientRequestList(k, p)
        \/ ClientRequestImage(k, p)
        \/ BadFrame(k, p)
    \/ \E k \in Clients : ClientDisconnect(k)
ClientFolders ==
    {f \in Folders : f[1] = {1} /\ f[2] \subseteq {2} /\ \A p \in Procs : p > 2 => f[p] = {}}
InitClient == InitWith(ClientFolders)
SpecClient == InitClient /\ [][NextClient]_vars

\* SpecCrash: daemons launched in sequence, the bootstrap peer holding at
\* most one image and the others none; once the last one is started, a
\* daemon may be killed at any moment, and no daemon is started after a crash.
CrashFolders == {f \in Folders : f[1] \subseteq {1} /\ \A p \in Procs : p > 1 => f[p] = {}}
InitCrash == InitWith(CrashFolders)
LaunchFirst == crashes = 0 /\ Launch
KillLater == daemon[n_peers].state = "up" /\ \E p \in Procs : Crash(p)
NextCrash ==
    \/ \E p \in Procs :
        \/ PeerStep(p)
        \/ ReadEOF(p)
        \/ ReadShort(p)
        \/ RecvAll(p)
        \/ ActionRequestImage(p)
    \/ LaunchFirst
    \/ KillLater
SpecCrash == InitCrash /\ [][NextCrash]_vars

\* SpecPair: two daemons with empty folders join the bootstrap peer, which
\* holds one image, at any time; the run is followed up to the end of the
\* bootstrap peer's join handlers.
PairFolders == {f \in Folders : f[1] = {1} /\ \A p \in Procs : p > 1 => f[p] = {}}
InitPair == InitWith(PairFolders)
JoinPending ==
    \E q \in 2..n_peers :
        \/ daemon[q].state = "off"
        \/ \E j \in 1..Len(chan[<<q, 1>>]) : chan[<<q, 1>>][j].cmd = "join"
        \/ \E k \in 1..Len(daemon[1].threads) : daemon[1].threads[k].cmd = "join"
PairStep(p) ==
    /\ JoinPending
    /\ \/ ReadMessage(p)
       \/ ActionJoin(p)
       \/ ActionConfig(p)
       \/ ActionUpdate(p)
       \/ ActionImage(p)
       \/ SendBegin(p)
       \/ SendEnd(p)
StartNext == \E q \in 2..n_peers : (\A r \in 2..(q - 1) : daemon[r].state = "up") /\ StartDaemon(q, 1)
NextPair ==
    \/ \E p \in Procs : PairStep(p)
    \/ StartNext
SpecPair == InitPair /\ [][NextPair]_vars

\* SpecRelay: the bootstrap peer holds every image and the other daemons
\* none; the daemons are launched in sequence, and once the network is at
\* rest a client asks one daemon for the list and then for up to MaxRelayed
\* images, one after the other (client.py, lines 46-71), and disconnects.
RelayFolders == {f \in Folders : f[1] = Hashes /\ \A p \in Procs : p > 1 => f[p] = {}}
InitRelay == InitWith(RelayFolders)
RelayList(k, p) ==
    /\ Settled
    /\ daemon[n_peers].state = "up"
    /\ ClientWaits(k, p)
    /\ creq[k] = << >>
    /\ ClientSend(k, p, RequestListMsg(0))
    /\ UNCHANGED badframes
RelayRequestImage(k, p) ==
    /\ ClientWaits(k, p)
    /\ Len(creq[k]) <= MaxRelayed
    /\ \E j \in 1..Len(inbox[k]) :
          /\ inbox[k][j].cmd = "list"
          /\ \E h \in inbox[k][j].hashes : ClientSend(k, p, RequestImageMsg(0, h))
    /\ UNCHANGED badframes
NextRelay ==
    \/ \E p \in Procs :
        \/ PeerStep(p)
        \/ ReadEOF(p)
        \/ ActionRequestImage(p)
        \/ ActionRequestList(p)
    \/ Launch
    \/ \E k \in Clients, p \in Procs :
        \/ RelayList(k, p)
        \/ RelayRequestImage(k, p)
    \/ \E k \in Clients : ClientDisconnect(k)
SpecRelay == InitRelay /\ [][NextRelay]_vars

\* --------------------------------------------------------------- claims
\* The daemons that run, the holders of a hash among them, the hashes ever
\* stored, and the runs in which no handler has raised.
Live == {p \in Procs : Alive(p)}
Holders(h) == {p \in Live : h \in daemon[p].image /\ h \in daemon[p].folder}
Admitted == UNION {daemon[p].image : p \in Procs}
Configured(p) == daemon[p].id # None /\ daemon[p].id \in getIds(daemon[p].net_info)
Joined(p) == Alive(p) /\ Configured(p)
SelfHashes(p) == IF Configured(p) THEN getHashes(daemon[p].net_info, daemon[p].id) ELSE {}
NoneRaised == \A p \in Procs : daemon[p].errs = {}
StoresIndexed == \A p \in Procs : Configured(p) => /\ SelfHashes(p) = daemon[p].image
                                                    /\ daemon[p].image = daemon[p].folder
Recovered == Settled /\ crashes = 1 /\ Cardinality(Live) >= 2

\* C1: after one crash that leaves two or more daemons running, once every
\* message is handled each hash ever admitted is held by at least two of the
\* running daemons; stated here for the runs in which no handler raised and
\* the store, the folder and the own catalog entry of every daemon, the
\* killed one included, agree.
C1_TwoHoldersAfterRecovery ==
    (Recovered /\ NoneRaised /\ StoresIndexed)
        => \A h \in Admitted : Cardinality(Holders(h)) >= 2

\* C2: whenever no handler of a daemon is executing, the hash-set of the
\* daemon's own catalog entry equals the key-set of its image store.
C2_SelfHashesAreStoreKeys ==
    \A p \in Procs :
        (Joined(p) /\ daemon[p].threads = << >>) => SelfHashes(p) = daemon[p].image

\* The list reply a request_list handler builds in this step, if any: the
\* handler of thread k of p goes from its entry to its send.
BuildsList(p, k) ==
    /\ k <= Len(daemon[p].threads) /\ k <= Len(daemon'[p].threads)
    /\ daemon[p].threads[k].cmd = "request_list" /\ daemon[p].threads[k].pc = "rl"
    /\ daemon'[p].threads[k].cmd = "request_list" /\ daemon'[p].threads[k].pc = "send"
    /\ daemon'[p].threads[k].conn = daemon[p].threads[k].conn
ListBuilt(p, k) == Head(daemon'[p].threads[k].todo).m.hashes

\* C3 (as the code has it): every list reply equals the union of the
\* hash-sets of all entries of the serving daemon's own catalog at the moment
\* it processes the request_list.
C3_ListIsCatalogUnion ==
    [][\A p \in Procs : \A k \in 1..Len(daemon[p].threads) :
          BuildsList(p, k) =>
              ListBuilt(p, k) = UNION {daemon[p].net_info[i].hash : i \in DOMAIN daemon[p].net_info}]_vars

\* C3 (as stated): every list reply equals the union over all live daemons
\* of their own hash-sets at the moment the serving daemon processes the
\* request_list.
C3_ListIsUnionOfLivePeers ==
    [][\A p \in Procs : \A k \in 1..Len(daemon[p].threads) :
          BuildsList(p, k) => ListBuilt(p, k) = UNION {SelfHashes(q) : q \in Live}]_vars

\* C3 happens: a client has received a list reply naming a hash while two
\* daemons run.
C3_ListReceived ==
    \E c \in Clients : \E j \in 1..Len(inbox[c]) :
        /\ inbox[c][j].cmd = "list" /\ inbox[c][j].hashes # {}
        /\ Cardinality({p \in Procs : Joined(p)}) >= 2

\* C4: one daemon has joined the bootstrap peer and every message is
\* handled: both catalogs hold exactly the entries 1 and 2, both entries hold
\* the union of the two initial folders in both catalogs, and both stores
\* hold every one of these hashes.
C4_TwoPeerJoin ==
    (Settled /\ daemon[2].state = "up") =>
        LET both == daemon[1].disk0 \cup daemon[2].disk0
        IN \A p \in {1, 2} :
              /\ getIds(daemon[p].net_info) = {1, 2}
              /\ \A i \in {1, 2} : getHashes(daemon[p].net_info, i) = both
              /\ daemon[p].image = both
              /\ daemon[p].folder = both

\* C5: no two running daemons have the same identifier, also when two
\* daemons join through different introducers at the same time.
C5_UniqueIds ==
    \A p \in Procs : \A q \in Procs :
        (p # q /\ Alive(p) /\ Alive(q) /\ daemon[p].id # None) => daemon[p].id # daemon[q].id

\* C8: after a frame failed to decode, the demultiplexer of the daemon that
\* read it keeps running.
C8_BadFrameKeepsDaemon ==
    \A p \in Procs : "BadFormat" \in daemon[p].errs => daemon[p].state = "up"

\* C9: after a lazy connect failed in a handler, the send mutex is not left
\* held: it is held only while some thread is inside send_msg.
C9_ConnectFailureFreesMutex ==
    \A p \in Procs :
        (daemon[p].errs = {"ConnectError"} /\ daemon[p].send_mutex)
            => \E k \in 1..Len(daemon[p].threads) : daemon[p].threads[k].pc = "sending"

\* C10: at most one thread of a daemon, worker or crash handler, is inside
\* send_msg, and no frame in flight between two daemons has its bytes mixed
\* with those of another.
C10_SendSerialized ==
    /\ \A p \in Procs :
          Cardinality({k \in 1..Len(daemon[p].threads) :
                          daemon[p].threads[k].pc = "sending"}) <= 1
    /\ \A e \in Procs \X Procs : \A j \in 1..Len(chan[e]) : chan[e][j].cmd # "bad"

\* C10 happens: a thread is inside send_msg while another thread of the same
\* daemon waits for the send mutex.
C10_SendContended ==
    \E p \in Procs : \E j \in 1..Len(daemon[p].threads) : \E k \in 1..Len(daemon[p].threads) :
        /\ daemon[p].threads[j].pc = "sending"
        /\ daemon[p].threads[k].pc = "send"
        /\ ~LoadFails(daemon[p], Head(daemon[p].threads[k].todo))

\* The last request of client c is request_image(h), sent to a daemon whose
\* demultiplexer runs and whose catalog lists h.
AsksImage(c, h) ==
    /\ creq[c] # << >>
    /\ creq[c][Len(creq[c])] = RequestImageMsg(0, h)
    /\ daemon[cpeer[c]].state = "up"
    /\ h \in getNetHashes(daemon[cpeer[c]].net_info)
GotImage(c, h) ==
    \E j \in 1..Len(inbox[c]) : inbox[c][j].cmd = "image" /\ inbox[c][j].hash = h

\* C6: a client that sent request_image(h) to a running daemon whose catalog
\* lists h, while no daemon is killed, has received an image message with
\* hash h once every message is handled.
C6_ClientGetsImage ==
    \A c \in Clients : \A h \in Hashes :
        (Settled /\ AsksImage(c, h)) => GotImage(c, h)

\* C7: for every crashed identifier at most one daemon goes on as designated
\* peer in crashHandler; stated here for the runs in which no handler raised
\* and the store, the folder and the own catalog entry of every daemon agree.
C7_OneRecoverer ==
    (NoneRaised /\ StoresIndexed) =>
        \A i \in 1..NProcs : Cardinality({p \in Procs : i \in daemon[p].elected}) <= 1

\* The hash-sets a daemon's catalog lists, per identifier.
HashView(p) == [i \in getIds(daemon[p].net_info) |-> getHashes(daemon[p].net_info, i)]

\* C11: after joins and no crash, once every message is handled, the
\* catalogs of all running daemons list the same identifiers with the same
\* hash-sets, and the hash-set listed for a daemon is that daemon's own;
\* stated here for the runs in which no handler raised and the store, the
\* folder and the own catalog entry of every daemon agree.
C11_CatalogAgreement ==
    (Settled /\ crashes = 0 /\ NoneRaised /\ StoresIndexed) =>
        \A p \in Live : \A q \in Live :
            /\ HashView(p) = HashView(q)
            /\ Configured(q) => /\ daemon[q].id \in DOMAIN HashView(p)
                                /\ HashView(p)[daemon[q].id] = SelfHashes(q)

\* The daemons that have been started.
Started == {p \in Procs : daemon[p].state # "off"}

\* C12: in a run without crash in which every join settles before the next
\* begins, once two or more daemons are started and every message is
\* handled, every hash ever stored is held by exactly two running daemons;
\* stated here for the runs in which no handler raised.
C12_ExactlyTwoHolders ==
    (Settled /\ crashes = 0 /\ Cardinality(Started) >= 2 /\ NoneRaised) =>
        \A h \in Admitted : Cardinality(Holders(h)) = 2

\* The identifiers of the daemons that were killed.
CrashedIds == {daemon[d].id : d \in {x \in Procs : daemon[x].state = "crashed"}} \ {None}
\* Daemon p has no catalog entry and no connection entry for identifier i.
Forgotten(p, i) ==
    /\ i \notin getIds(daemon[p].net_info)
    /\ i \notin DOMAIN daemon[p].send_conn
    /\ i \notin DOMAIN daemon[p].recv_conn

\* C13: after a daemon is killed and no daemon is started afterwards, once
\* every message is handled every running daemon has removed the killed
\* daemon's identifier from its catalog and from both connection tables;
\* stated here for the runs in which no handler raised and the store, the
\* folder and the own catalog entry of every daemon agree.
C13_CrashedForgotten ==
    (Settled /\ crashes = 1 /\ NoneRaised /\ StoresIndexed) =>
        \A i \in CrashedIds : \A p \in Live : Forgotten(p, i)

\* The demultiplexer of p handles, in this step, the EOF of a daemon's
\* connection through crashHandler and goes on running.
HandlesCrash(p) ==
    /\ \E c \in Ends :
          /\ chan[<<c, p>>] # << >>
          /\ Head(chan[<<c, p>>]).cmd = "eof"
          /\ chan'[<<c, p>>] = Tail(chan[<<c, p>>])
          /\ isDaemon(daemon[p], c)
    /\ daemon[p].state = "up" /\ daemon'[p].state = "up"
    /\ getIds(daemon'[p].net_info) # getIds(daemon[p].net_info)
\* Least folder size first, least identifier among equal sizes.
Smallest(ni) ==
    CHOOSE i \in getIds(ni) : \A j \in getIds(ni) \ {i} :
        \/ getSize(ni, i) < getSize(ni, j)
        \/ getSize(ni, i) = getSize(ni, j) /\ i < j

\* C14: when crashHandler runs on a catalog with two or more survivors, the
\* daemon goes on as designated peer exactly when its identifier is the one
\* with the smallest folder size, the smallest identifier among equal sizes,
\* and its backup is the next identifier in that order.
C14_DesignatedIsSmallest ==
    [][\A p \in Procs :
          (HandlesCrash(p) /\ Cardinality(getIds(daemon'[p].net_info)) >= 2) =>
              LET ni == daemon'[p].net_info
                  first == Smallest(ni)
              IN /\ (daemon'[p].elected # daemon[p].elected) <=> (daemon[p].id = first)
                 /\ \A k \in 1..Len(daemon'[p].threads) :
                       (daemon'[p].threads[k].cmd = "eof" /\ daemon'[p].threads[k].backup # None)
                           => daemon'[p].threads[k].backup = Smallest(pop(ni, first))]_vars

\* C14 happens: a daemon is designated although another survivor has a
\* smaller identifier and a larger folder, and it has a backup.
C14_DesignatedBySize ==
    \E p \in Procs : \E k \in 1..Len(daemon[p].threads) :
        /\ daemon[p].elected # {}
        /\ daemon[p].threads[k].cmd = "eof"
        /\ daemon[p].threads[k].backup # None
        /\ daemon[p].threads[k].backup < daemon[p].id
        /\ getSize(daemon[p].net_info, daemon[p].threads[k].backup)
              > getSize(daemon[p].net_info, daemon[p].id)

\* The crash handler of a daemon object, if it is running (the demultiplexer
\* runs one at a time).
CrashThreads(s) == {s.threads[k] : k \in {j \in 1..Len(s.threads) : s.threads[j].cmd = "eof"}}
\* The hashes of the crashed entry the designated peer has still to go
\* through before this step, and after it.
PendingBefore(p) ==
    IF CrashThreads(daemon[p]) # {}
    THEN UNION {Range(t.hs) : t \in CrashThreads(daemon[p])}
    ELSE UNION {getHashes(daemon[p].net_info, i) :
                   i \in (daemon'[p].elected \ daemon[p].elected) \cap getIds(daemon[p].net_info)}
PendingAfter(p) ==
    UNION {Range(t.hs) \cup {Head(t.todo).m.hash} : t \in CrashThreads(daemon'[p])}
\* The designated peer goes on through the hashes of the crashed entry in
\* this step, without raising: it reaches its next send or the end.
Recovers(p) ==
    /\ daemon[p].state = "up" /\ daemon'[p].state = "up"
    /\ daemon'[p].errs = daemon[p].errs
    /\ CrashThreads(daemon'[p]) # CrashThreads(daemon[p])
    /\ \A t \in CrashThreads(daemon'[p]) : t.pc = "send"
    /\ CrashThreads(daemon[p]) # {} \/ daemon'[p].elected # daemon[p].elected
Listed(ni, h) == {i \in getIds(ni) : h \in getHashes(ni, i)}

\* C15: going through the hashes of the crashed entry, the designated peer
\* sends nothing for a hash that no surviving entry lists and one message
\* for every other hash: request_image to a surviving holder other than
\* itself, with the hash noted in _own_request, or, when it is itself the
\* holder found, image with store=True to the backup; never to the crashed
\* identifier and never a request_image to itself.
C15_OneMessagePerLostHash ==
    [][\A p \in Procs : Recovers(p) =>
          LET ni == daemon'[p].net_info
              me == daemon'[p].id
          IN /\ \A h \in PendingBefore(p) \ PendingAfter(p) : Listed(ni, h) = {}
             /\ \A t \in CrashThreads(daemon'[p]) :
                   LET e == Head(t.todo)
                       h == e.m.hash
                   IN /\ Len(t.todo) = 1
                      /\ h \in PendingBefore(p) /\ h \notin Range(t.hs)
                      /\ e.kind = "id" /\ e.v # t.crashed /\ e.v # me
                      /\ \/ /\ e.m = RequestImageMsg(me, h)
                            /\ e.v \in Listed(ni, h)
                            /\ h \in daemon'[p].own_request
                         \/ /\ e.m = ImageMsg(me, h, TRUE)
                            /\ me \in Listed(ni, h)
                            /\ e.v = t.backup]_vars

\* C15 happens: a designated peer is about to request a lost hash from a
\* surviving holder.
C15_RecoveryRequested ==
    \E p \in Procs : \E t \in CrashThreads(daemon[p]) :
        /\ t.pc = "send"
        /\ Head(t.todo).m.cmd = "request_image"
        /\ Head(t.todo).m.hash \in daemon[p].own_request

\* A table without its entry for identifier i.
Without(f, i) == [x \in DOMAIN f \ {i} |-> f[x]]

\* C16: a daemon that handles the EOF of a peer and is alone afterwards, or
\* is not the designated peer, only removes the crashed identifier from its
\* catalog and from both connection tables: it starts no send, writes no
\* frame, and its store, its folder, its own hash-set and _own_request are
\* as before.
C16_AbstainingPeerOnlyForgets ==
    [][\A p \in Procs :
          (HandlesCrash(p) /\ daemon'[p].elected = daemon[p].elected) =>
              /\ \E i \in getIds(daemon[p].net_info) \ {daemon[p].id} :
                    /\ daemon'[p].net_info = Without(daemon[p].net_info, i)
                    /\ daemon'[p].send_conn = Without(daemon[p].send_conn, i)
                    /\ daemon'[p].recv_conn = Without(daemon[p].recv_conn, i)
              /\ daemon'[p].threads = daemon[p].threads
              /\ daemon'[p].image = daemon[p].image
              /\ daemon'[p].folder = daemon[p].folder
              /\ daemon'[p].own_request = daemon[p].own_request
              /\ daemon'[p].send_mutex = daemon[p].send_mutex
              /\ Configured(p) => SelfHashes(p)' = SelfHashes(p)
              /\ \A q \in Procs : chan'[<<p, q>>] = chan[<<p, q>>]
              /\ inbox' = inbox]_vars

\* C16 happens: a daemon has handled the EOF of a peer without being
\* designated, one or more other survivors being left in its catalog.
C16_Abstained ==
    \E p \in Procs : \E i \in CrashedIds :
        /\ daemon[p].state = "up" /\ daemon[p].errs = {}
        /\ daemon[p].closed # {} /\ daemon[p].elected = {}
        /\ Forgotten(p, i)
        /\ Cardinality(getIds(daemon[p].net_info)) >= 2

\* Thread k of daemon p, and no other, moves or ends in this step.
ThreadStep(p, k) ==
    /\ k <= Len(daemon[p].threads)
    /\ daemon'[p].threads # daemon[p].threads /\ daemon'[p].state = daemon[p].state
    /\ \/ daemon'[p].threads = RemoveAt(daemon[p].threads, k)
       \/ /\ Len(daemon'[p].threads) = Len(daemon[p].threads)
          /\ \A j \in 1..Len(daemon[p].threads) :
                j # k => daemon'[p].threads[j] = daemon[p].threads[j]
\* An image handler runs lines 213-222 (after its last relay, if any), and
\* an image handler runs lines 224-236.
ImageDecides(p, k) ==
    LET t == daemon[p].threads[k]
    IN /\ ThreadStep(p, k)
       /\ t.cmd = "image"
       /\ t.pc = "im" \/ (t.pc = "sending" /\ t.next = "im2" /\ Len(t.todo) = 1)
ImageAdmits(p, k) ==
    /\ ThreadStep(p, k)
    /\ daemon[p].threads[k].cmd = "image" /\ daemon[p].threads[k].pc = "im3"
OtherIds(p) == getIds(daemon'[p].net_info) \ {daemon'[p].id}
\* What the admission of the image of thread k leaves behind.
Admission(p, k) ==
    LET h == daemon[p].threads[k].msg.hash
        me == daemon'[p].id
        ni == daemon'[p].net_info
    IN /\ daemon'[p].errs = daemon[p].errs
       /\ h \in daemon'[p].image /\ h \in daemon'[p].folder
       /\ me \in getIds(ni) /\ h \in getHashes(ni, me)
       /\ IF OtherIds(p) = {} THEN daemon'[p].threads = RemoveAt(daemon[p].threads, k)
          ELSE LET t2 == daemon'[p].threads[k]
               IN /\ t2.pc = "send"
                  /\ Len(t2.todo) = Cardinality(OtherIds(p))
                  /\ {t2.todo[j].v : j \in 1..Len(t2.todo)} = OtherIds(p)
                  /\ \A j \in 1..Len(t2.todo) :
                        /\ t2.todo[j].kind = "id"
                        /\ t2.todo[j].m = UpdateMsg(me, put(Empty, me,
                                             [hash |-> {h}, size |-> getSize(ni, me)]))

\* C17: an image handler goes on to admit the image exactly when the hash is
\* in _own_request or the store flag is set, and then takes the hash out of
\* _own_request; otherwise the store, the folder, the catalog and
\* _own_request stay as they are and only relays to clients are sent.  An
\* admission puts the image in the store and the folder, the hash in the own
\* catalog entry, and schedules one update {self: {hash, size}} for every
\* other identifier of the catalog.
C17_ImageAdmittedIffWanted ==
    [][\A p \in Procs : \A k \in 1..Len(daemon[p].threads) :
          /\ ImageAdmits(p, k) => Admission(p, k)
          /\ ImageDecides(p, k) =>
                LET t == daemon[p].threads[k]
                IN /\ daemon'[p].image = daemon[p].image
                   /\ daemon'[p].folder = daemon[p].folder
                   /\ daemon'[p].net_info = daemon[p].net_info
                   /\ IF t.msg.store \/ t.msg.hash \in daemon[p].own_request
                      THEN /\ daemon'[p].own_request = daemon[p].own_request \ {t.msg.hash}
                           /\ Len(daemon'[p].threads) >= k
                           /\ daemon'[p].threads[k].pc \in {"im3", "send"}
                      ELSE /\ daemon'[p].own_request = daemon[p].own_request
                           /\ \/ daemon'[p].threads = RemoveAt(daemon[p].threads, k)
                              \/ /\ daemon'[p].threads[k].pc = "send"
                                 /\ daemon'[p].threads[k].next = "im2"]_vars

\* A config handler has sent its last update and builds the replication of
\* its own images (lines 144-155) in this step, without raising.
ConfigReplicates(p, k) ==
    LET t == daemon[p].threads[k]
    IN /\ ThreadStep(p, k)
       /\ t.cmd = "config" /\ t.pc = "sending" /\ t.next = "c4" /\ Len(t.todo) = 1
       /\ daemon'[p].errs = daemon[p].errs
\* The number of sends of a list that go to identifier i.
SentTo(todo, i) == Cardinality({j \in 1..Len(todo) : todo[j].v = i})

\* C18: a joiner whose own entry holds k hashes after parseFolder, in a
\* catalog with m >= 1 other identifiers, sends every one of these hashes
\* once, as image with store=True, to an identifier other than its own, and
\* the numbers of images sent to two other identifiers differ by one at most.
C18_RoundRobinReplication ==
    [][\A p \in Procs : \A k \in 1..Len(daemon[p].threads) :
          (ConfigReplicates(p, k) /\ OtherIds(p) # {}) =>
              LET me == daemon'[p].id
                  own == getHashes(daemon'[p].net_info, me)
              IN IF own = {} THEN daemon'[p].threads = RemoveAt(daemon[p].threads, k)
                 ELSE LET todo == daemon'[p].threads[k].todo
                      IN /\ daemon'[p].threads[k].pc = "send"
                         /\ Len(todo) = Cardinality(own)
                         /\ {todo[j].m.hash : j \in 1..Len(todo)} = own
                         /\ \A j \in 1..Len(todo) :
                               /\ todo[j].kind = "id" /\ todo[j].v \in OtherIds(p)
                               /\ todo[j].m = ImageMsg(me, todo[j].m.hash, TRUE)
                         /\ \A a \in OtherIds(p) : \A b \in OtherIds(p) :
                               SentTo(todo, a) <= SentTo(todo, b) + 1]_vars

\* C18 happens: a joiner is about to send two images of its own to two
\* different peers.
C18_TwoImagesTwoPeers ==
    \E p \in Procs : \E k \in 1..Len(daemon[p].threads) :
        LET t == daemon[p].threads[k]
        IN /\ t.cmd = "config" /\ t.pc = "send" /\ t.next = "c5"
           /\ Len(t.todo) = 2 /\ t.todo[1].v # t.todo[2].v

\* A join handler has sent its last config or update message and reaches
\* line 117 in this step, without raising.
JoinDecides(p, k) ==
    LET t == daemon[p].threads[k]
    IN /\ ThreadStep(p, k)
       /\ t.cmd = "join" /\ t.pc = "sending" /\ t.next \in {"j3", "j4"} /\ Len(t.todo) = 1
       /\ daemon'[p].errs = daemon[p].errs
       /\ ~ /\ Len(daemon'[p].threads) = Len(daemon[p].threads)
            /\ daemon'[p].threads[k].pc = "send" /\ daemon'[p].threads[k].next = "j4"
\* The join handler goes on to send every image of its own entry to the
\* joiner, with store=True.
JoinReplicates(p, k) ==
    LET t == daemon'[p].threads[k]
        own == getHashes(daemon'[p].net_info, daemon'[p].id)
    IN /\ Len(daemon'[p].threads) = Len(daemon[p].threads)
       /\ t.cmd = "join" /\ t.pc = "send" /\ t.next = "end"
       /\ {t.todo[j].m.hash : j \in 1..Len(t.todo)} = own
       /\ \A j \in 1..Len(t.todo) :
             /\ t.todo[j].kind = "id" /\ t.todo[j].v = t.new_id
             /\ t.todo[j].m = ImageMsg(daemon'[p].id, t.todo[j].m.hash, TRUE)

\* C19: a join handler replicates the images of the introducer's own entry
\* to the joiner exactly when the introducer's catalog held one identifier
\* when the join message was read, also when two joins are handled at once.
C19_ReplicateIffSolePeer ==
    [][\A p \in Procs : \A k \in 1..Len(daemon[p].threads) :
          (JoinDecides(p, k) /\ SelfHashes(p) # {}) =>
              (JoinReplicates(p, k) <=> daemon[p].threads[k].n_ids = 1)]_vars

\* C20: one daemon has joined the bootstrap peer and every message is
\* handled, in whatever order the joiner's threads ran the config handler
\* and the handlers of the replicated images: no handler of the joiner has
\* raised or is left waiting, and every image of the bootstrap peer is in the
\* joiner's store, in its folder and in its own catalog entry.
C20_ImageBeforeConfig ==
    (Settled /\ daemon[2].state = "up") =>
        /\ daemon[2].errs = {}
        /\ daemon[2].threads = << >>
        /\ \A h \in daemon[1].disk0 :
              /\ h \in daemon[2].image /\ h \in daemon[2].folder
              /\ h \in SelfHashes(2)

\* Daemon p has an inbound and an outbound connection entry for the
\* identifier of daemon q.
Linked(p, q) ==
    /\ daemon[q].id \in DOMAIN daemon[p].recv_conn
    /\ daemon[q].id \in DOMAIN daemon[p].send_conn

\* C21: after the joins and no crash, once every message is handled, every
\* running daemon has, for every other running daemon, that daemon's
\* identifier in its inbound-connection table and in its outbound-connection
\* table, in whatever order the introducer's address update and the
\* joiner's own update are handled by a third daemon.
C21_FullMesh ==
    (Settled /\ crashes = 0) =>
        \A p \in Live : \A q \in Live :
            (p # q /\ Joined(p) /\ Joined(q)) => Linked(p, q)

\* The hashes for which _client_request of a daemon object has an entry of
\* connection c (the dict is keyed by connection).
EntriesOf(s, c) == IF c \in DOMAIN s.client_request THEN {s.client_request[c]} ELSE {}
\* A request_image handler of a client's request takes lines 191-197: it
\* notes the request and goes on to ask a holder for the image.
Forwards(p, k) ==
    LET t == daemon[p].threads[k]
    IN /\ ThreadStep(p, k)
       /\ t.cmd = "request_image" /\ t.pc = "ri" /\ t.msg.from_id = 0
       /\ Len(daemon'[p].threads) = Len(daemon[p].threads)
       /\ daemon'[p].threads[k].pc = "send"
       /\ Head(daemon'[p].threads[k].todo).m.cmd = "request_image"
\* The demultiplexer of p reads the EOF of client connection c (lines 73-78).
ReadsHangup(p, c) ==
    /\ chan[<<c, p>>] # << >>
    /\ Head(chan[<<c, p>>]).cmd = "eof"
    /\ chan'[<<c, p>>] = Tail(chan[<<c, p>>])
    /\ ~isDaemon(daemon[p], c)
\* An image handler starts and runs lines 213-218 without raising.
ImageBegins(p, k) ==
    /\ ThreadStep(p, k)
    /\ daemon[p].threads[k].cmd = "image" /\ daemon[p].threads[k].pc = "im"
    /\ daemon'[p].errs = daemon[p].errs
\* Every connection whose entry is the hash of the image gets one relay, and
\* no entry is touched.
RelaysToWaiting(p, k) ==
    LET h == daemon[p].threads[k].msg.hash
        cr == daemon[p].client_request
        waiting == {c \in DOMAIN cr : cr[c] = h}
    IN /\ daemon'[p].client_request = cr
       /\ waiting # {} =>
             LET t2 == daemon'[p].threads[k]
             IN /\ Len(daemon'[p].threads) = Len(daemon[p].threads)
                /\ t2.pc = "send" /\ t2.next = "im2"
                /\ Len(t2.todo) = Cardinality(waiting)
                /\ {t2.todo[j].v : j \in 1..Len(t2.todo)} = waiting
                /\ \A j \in 1..Len(t2.todo) :
                      /\ t2.todo[j].kind = "conn"
                      /\ t2.todo[j].m = ImageMsg(daemon[p].id, h, FALSE)

\* C22 (as the code has it): a relay leaves _client_request as it is, so
\* every image message for h is relayed to every connection whose entry is
\* h; the entry of a connection stays until the client disconnects or the
\* same connection has another request forwarded, which replaces it: a
\* connection has one entry, the hash of its last forwarded request.
C22_OneEntryPerConnection ==
    [][\A p \in Procs :
          /\ \A k \in 1..Len(daemon[p].threads) : ImageBegins(p, k) => RelaysToWaiting(p, k)
          /\ \A c \in Clients :
                LET before == EntriesOf(daemon[p], c)
                    after == EntriesOf(daemon'[p], c)
                    hs == {daemon[p].threads[k].msg.hash :
                              k \in {j \in 1..Len(daemon[p].threads) :
                                        Forwards(p, j) /\ daemon[p].threads[j].conn = c}}
                IN /\ hs # {} => after = hs
                   /\ after # before => \/ ReadsHangup(p, c) /\ after = {}
                                        \/ hs # {}]_vars

\* C22 (as stated): a relay leaves _client_request as it is, so every image
\* message for h is relayed to every connection whose entry is h; an entry
\* stays until the client disconnects, so that after a second forwarded
\* request of a connection both its entries are present.
C22_EntriesAccumulate ==
    [][\A p \in Procs :
          /\ \A k \in 1..Len(daemon[p].threads) : ImageBegins(p, k) => RelaysToWaiting(p, k)
          /\ \A c \in Clients :
                LET before == EntriesOf(daemon[p], c)
                    after == EntriesOf(daemon'[p], c)
                    hs == {daemon[p].threads[k].msg.hash :
                              k \in {j \in 1..Len(daemon[p].threads) :
                                        Forwards(p, j) /\ daemon[p].threads[j].conn = c}}
                IN /\ hs \subseteq after
                   /\ before \subseteq after \/ (ReadsHangup(p, c) /\ after = {})]_vars

\* C22 happens: a daemon that never stored h1 has relayed the image of h1
\* to its client and now forwards the client's request for another hash.
C22_SecondForward ==
    \E p \in Procs : \E c \in Clients : \E k \in 1..Len(daemon[p].threads) :
        LET t == daemon[p].threads[k]
        IN /\ t.cmd = "request_image" /\ t.conn = c /\ t.pc = "send"
           /\ Head(t.todo).m.cmd = "request_image"
           /\ EntriesOf(daemon[p], c) = {t.msg.hash}
           /\ \E j \in 1..Len(inbox[c]) :
                 /\ inbox[c][j].cmd = "image"
                 /\ inbox[c][j].hash # t.msg.hash
                 /\ inbox[c][j].hash \notin daemon[p].image

\* The demultiplexer of p reads the EOF of connection c (read, lines 60-78).
ReadsEOF(p, c) ==
    /\ daemon[p].state = "up"
    /\ chan[<<c, p>>] # << >>
    /\ Head(chan[<<c, p>>]).cmd = "eof"
    /\ chan'[<<c, p>>] = Tail(chan[<<c, p>>])
\* The identifiers under which connection c is registered in _recv_conn.
RegisteredAs(s, c) == {j \in DOMAIN s.recv_conn : s.recv_conn[j] = c}

\* C23: the EOF of a connection that is not registered in _recv_conn only
\* removes the connection's _client_request entry and closes it: catalog,
\* store, folder, connection tables, _own_request and threads stay as they
\* are and the demultiplexer keeps running.  The EOF of a registered
\* connection runs crashHandler for the one identifier the connection is
\* registered under, the identifier of the daemon at its other end: that
\* entry, and no other, leaves the catalog.
C23_EOFByRegistration ==
    [][\A p \in Procs : \A c \in Ends :
          ReadsEOF(p, c) =>
              IF isDaemon(daemon[p], c)
              THEN LET regs == RegisteredAs(daemon[p], c)
                   IN /\ Cardinality(regs) = 1
                      /\ (c \in Procs /\ daemon[c].id # None) => regs = {daemon[c].id}
                      /\ regs \subseteq getIds(daemon[p].net_info)
                      /\ getIds(daemon'[p].net_info) = getIds(daemon[p].net_info) \ regs
              ELSE daemon'[p] = [daemon[p] EXCEPT !.client_request = Without(@, c),
                                                  !.closed = @ \cup {c}]]_vars

\* SpecRecv: the runs of SpecCrash in which a demultiplexer that is inside
\* __recvall goes on with its loop.
SpecRecv == InitCrash /\ [][NextCrash]_vars /\ WF_vars(\E p \in Procs : RecvAll(p))
\* The demultiplexer of p is inside recv_msg.
Receiving(p) == daemon[p].recv # NoRecv

\* C24: a call of recv_msg on a connection that the other side has closed
\* returns, also when the connection was closed after the length prefix and
\* before the whole body was written: the loop of __recvall ends.
C24_RecvMsgReturns == \A p \in Procs : Receiving(p) ~> ~Receiving(p)

\* No send and no file access of any daemon has failed.
NoSendOrFileFailure ==
    \A p \in Procs : daemon[p].errs \cap {"ConnectError", "SendError", "LoadError"} = {}
\* Thread t waits for the folder mutex; thread t holds the send mutex.
WaitsFolder(s, t) == t.pc \in {"c3", "im3"} /\ s.folder_mutex
HoldsSend(t) == t.pc = "sending"

\* C25: no thread waits for the folder mutex while it holds the send mutex,
\* and when no send and no file access has failed no thread is left waiting
\* for a mutex once every message is handled: every handler has ended.
C25_NoMutexDeadlock ==
    /\ \A p \in Procs : \A k \in 1..Len(daemon[p].threads) :
          WaitsFolder(daemon[p], daemon[p].threads[k]) => ~HoldsSend(daemon[p].threads[k])
    /\ (Settled /\ NoSendOrFileFailure) =>
          \A p \in Procs : Alive(p) => daemon[p].threads = << >>

\* C26: every identifier that is a key of a daemon's _recv_conn is an
\* identifier of its catalog, so that getIdByRecvConn, which scans the
\* catalog, finds the identifier of every registered connection.
C26_RecvConnInCatalog ==
    \A p \in Procs : Alive(p) => DOMAIN daemon[p].recv_conn \subseteq getIds(daemon[p].net_info)

\* C27: whenever no handler of a daemon is executing, every hash of the
\* daemon's image store has its file in the folder; an image admitted before
\* or during the joiner's parseFolder is not deleted by it.
C27_StoredFilesExist ==
    \A p \in Procs :
        (Alive(p) /\ daemon[p].threads = << >>) => daemon[p].image \subseteq daemon[p].folder
====
